---- MODULE Spec2Model ----
(***************************************************************************)
(* Model of the asynchronous job lifecycle of the video creation API:      *)
(* the in-memory JobQueue (app/job_queue.py), the orchestration run        *)
(* process_video_background (main.py), the video pipeline                  *)
(* VideoProcessor.process_video with render_video (utils/), the Instagram  *)
(* publisher and the two file helpers delete_video_file and                *)
(* save_payload_log.                                                       *)
(*                                                                         *)
(* Conventions.                                                            *)
(*  - A Python Optional value is a tuple: None is << >> and a value x is   *)
(*    << x >>.                                                             *)
(*  - A Python string is a sequence of text tokens; the empty string is    *)
(*    the empty sequence and concatenation is \o.                          *)
(*  - datetime.utcnow() returns the clock now; the clock may have advanced *)
(*    since it was last read (Clock), up to MaxClock.                      *)
(***************************************************************************)
EXTENDS Integers, Sequences, FiniteSets, TLC

VARIABLES
    jobs,          \* JobQueue.jobs: job_id -> Job
    pc,            \* position of each orchestration run
    run,           \* locals of each orchestration run
    files,         \* files of the output directory
    assets,        \* *.mp3 files of the assets directory
    logs,          \* files of the ./logs directory
    now,           \* the clock read by datetime.utcnow()
    settings,      \* Settings: the two credential pairs
    last_error,    \* InstagramPublisher.last_error
    removeMayFail, \* whether os.remove can raise on this file system
    memoryMayFail, \* whether the interpreter can run out of memory (MemoryError)
    world,         \* what the render engine, the asset host and the Graph API can do
    workload,      \* per job id: the parameter bags a client may submit with it
    written,       \* per job: the status of the job after each update_job_status
    hist,          \* per job: which components raised, and whether a video was rendered
    calls,         \* per job: the calls made by its orchestration run
    http           \* per job: the HTTP exchanges of its run with the Graph API

vars == << jobs, pc, run, files, assets, logs, now, settings, last_error,
           removeMayFail, memoryMayFail, world, workload, written, hist, calls, http >>

(***************************************************************************)
(* Bounds                                                                  *)
(***************************************************************************)
MaxClock == 1

\* the number of update_job_status calls a client of the queue makes per job
MaxUpdates == 3

\* the number of update_job_status calls that find their job, per job id, when
\* the values returned are recorded
MaxCalls == 1

\* the number of delete_video_file calls a client of the file helper makes
MaxDeletes == 3

\* the number of queries served per job
MaxQueries == 2

JobIds == {"j1", "j2"}

(***************************************************************************)
(* Optional values and strings                                             *)
(***************************************************************************)
None == << >>

Some(x) == << x >>

Val(o) == o[1]

\* bool(s) of an Optional[str]: None and "" are falsy
TruthyStr(o) == o # None /\ Val(o) # << >>

\* bool(x) of an Optional datetime
TruthyObj(o) == o # None

\* bool(d) of an Optional[dict]: None and {} are falsy
TruthyDict(o) == o # None /\ DOMAIN Val(o) # {}

(***************************************************************************)
(* app/job_queue.py                                                        *)
(***************************************************************************)
PENDING == "pending"

PROCESSING == "processing"

COMPLETED == "completed"

FAILED == "failed"

PUBLISHED == "published"

JobStatus == {PENDING, PROCESSING, COMPLETED, FAILED, PUBLISHED}

\* Job.__init__
NewJob(job_id, template, params, t) ==
    [ job_id       |-> job_id,
      template     |-> template,
      params       |-> params,
      status       |-> PENDING,
      created_at   |-> t,
      started_at   |-> None,
      completed_at |-> None,
      error        |-> None,
      result       |-> None ]

\* a mutation: registering a job evicts the jobs registered before
add_job_alone(q, job) == (job.job_id :> job)

\* JobQueue.add_job
add_job(q, job) == (job.job_id :> job) @@ q

\* JobQueue.get_job
get_job(q, job_id) == IF job_id \in DOMAIN q THEN Some(q[job_id]) ELSE None

\* a mutation: started_at is written on every PROCESSING update
UpdatedJobRestart(job, status, error, result, t) ==
    [ job EXCEPT
        !.status       = status,
        !.started_at   = IF status = PROCESSING THEN Some(t) ELSE @,
        !.completed_at = IF status \in {COMPLETED, FAILED, PUBLISHED} THEN Some(t) ELSE @,
        !.error        = IF TruthyStr(error) THEN error ELSE @,
        !.result       = IF TruthyDict(result) THEN result ELSE @ ]

\* a mutation: COMPLETED is treated as a final status
UpdatedJobFinalCompleted(job, status, error, result, t) ==
    [ job EXCEPT
        !.status       = IF @ = COMPLETED THEN @ ELSE status,
        !.started_at   = IF status = PROCESSING /\ ~TruthyObj(@) THEN Some(t) ELSE @,
        !.completed_at = IF status \in {COMPLETED, FAILED, PUBLISHED} THEN Some(t) ELSE @,
        !.error        = IF TruthyStr(error) THEN error ELSE @,
        !.result       = IF TruthyDict(result) THEN result ELSE @ ]

\* a mutation: the status is written only when no error is given
UpdatedJobStatusUnlessError(job, status, error, result, t) ==
    [ job EXCEPT
        !.status       = IF TruthyStr(error) THEN @ ELSE status,
        !.started_at   = IF status = PROCESSING /\ ~TruthyObj(@) THEN Some(t) ELSE @,
        !.completed_at = IF status \in {COMPLETED, FAILED, PUBLISHED} THEN Some(t) ELSE @,
        !.error        = IF TruthyStr(error) THEN error ELSE @,
        !.result       = IF TruthyDict(result) THEN result ELSE @ ]

\* a mutation: a FAILED update leaves completed_at alone
UpdatedJobFailedUnstamped(job, status, error, result, t) ==
    [ job EXCEPT
        !.status       = status,
        !.started_at   = IF status = PROCESSING /\ ~TruthyObj(@) THEN Some(t) ELSE @,
        !.completed_at = IF status \in {COMPLETED, PUBLISHED} THEN Some(t) ELSE @,
        !.error        = IF TruthyStr(error) THEN error ELSE @,
        !.result       = IF TruthyDict(result) THEN result ELSE @ ]

\* JobQueue.update_job_status, lines 107-119: the fields of a job that is found
UpdatedJob(job, status, error, result, t) ==
    [ job EXCEPT
        !.status       = status,
        !.started_at   = IF status = PROCESSING /\ ~TruthyObj(@) THEN Some(t) ELSE @,
        !.completed_at = IF status \in {COMPLETED, FAILED, PUBLISHED} THEN Some(t) ELSE @,
        !.error        = IF TruthyStr(error) THEN error ELSE @,
        !.result       = IF TruthyDict(result) THEN result ELSE @ ]

\* a mutation: the status is written to every job of the queue
update_job_status_all(q, job_id, status, error, result, t) ==
    [ id \in DOMAIN q |-> IF id = job_id
                          THEN UpdatedJob(q[id], status, error, result, t)
                          ELSE [ q[id] EXCEPT !.status = status ] ]

\* a mutation: an unknown job id is registered by the update
update_job_status_upsert(q, job_id, status, error, result, t) ==
    IF job_id \notin DOMAIN q
    THEN (job_id :> UpdatedJob(NewJob(job_id, "DYNAMIC", << >>, t), status, error, result, t))
           @@ q
    ELSE [ q EXCEPT ![job_id] = UpdatedJob(@, status, error, result, t) ]

\* JobQueue.update_job_status: the queue after the call
update_job_status(q, job_id, status, error, result, t) ==
    IF job_id \notin DOMAIN q
    THEN q
    ELSE [ q EXCEPT ![job_id] = UpdatedJob(@, status, error, result, t) ]

\* JobQueue.update_job_status: the value returned
update_job_status_ret(q, job_id) == job_id \in DOMAIN q

(***************************************************************************)
(* The file system                                                         *)
(***************************************************************************)
\* os.path.join(output_dir, f"{prefix}{region.lower()}_{video_id}.mp4{suffix}")
Path(kind, region_lower, video_id) ==
    [ kind |-> kind, region |-> region_lower, id |-> video_id ]

\* the file helpers see a path that is None, or the path of a file
Exists(fs, path) == path # None /\ Val(path) \in fs

\* utils/video_processor.py, delete_video_file: the files after the call.
\* remove_raises: os.remove raises, which the except clause swallows.
delete_video_file(fs, video_path, remove_raises) ==
    IF Exists(fs, video_path) /\ ~remove_raises
    THEN fs \ {Val(video_path)}
    ELSE fs

\* a mutation: True is returned whenever the file existed
delete_video_file_ret_existed(fs, video_path, remove_raises) == Exists(fs, video_path)

\* delete_video_file: the value returned
delete_video_file_ret(fs, video_path, remove_raises) ==
    Exists(fs, video_path) /\ ~remove_raises

\* the outcomes of os.remove on this file system
RemoveOutcomes == IF removeMayFail THEN BOOLEAN ELSE {FALSE}

\* utils/video_processor.py, save_payload_log: the ./logs directory after the
\* call. write_raises: makedirs or open raises, which the except clause swallows.
save_payload_log(lg, payload, video_id, error_message, t, write_raises) ==
    IF write_raises
    THEN lg
    ELSE lg \cup { [ name    |-> << "failed_payload_", video_id, t >>,
                     video   |-> video_id,
                     error   |-> error_message,
                     payload |-> payload ] }

\* save_payload_log: the value returned, the path or ""
save_payload_log_ret(video_id, t, write_raises) ==
    IF write_raises THEN << >> ELSE << "./logs/failed_payload_", video_id, t >>

(***************************************************************************)
(* Request parameters                                                      *)
(***************************************************************************)
\* a JSON value of the parameter bag: a string, a number, or null
Str(s) == [ str |-> s ]

Num(n) == [ num |-> n ]

Null == [ null |-> TRUE ]

\* a JSON array
List(items) == [ list |-> items ]

IsStr(v) == DOMAIN v = {"str"}

IsList(v) == DOMAIN v = {"list"}

IsNum(v) == DOMAIN v = {"num"}

\* params.get(key): None when the key is absent
Get(params, key) == IF key \in DOMAIN params THEN params[key] ELSE Null

\* bool(v) of a JSON value: null, "", 0 and [] are falsy
Truthy(v) ==
    CASE IsStr(v)  -> v.str # ""
      [] IsNum(v)  -> v.num # 0
      [] IsList(v) -> v.list # << >>
      [] OTHER     -> FALSE

\* str.upper() on the region texts that occur
Upper(s) ==
    CASE s = "br"     -> "BR"
      [] s = "global" -> "GLOBAL"
      [] s = "Global" -> "GLOBAL"
      [] OTHER        -> s

\* str.lower() on the region texts that occur
Lower(s) ==
    CASE s = "BR"     -> "br"
      [] s = "GLOBAL" -> "global"
      [] s = "Global" -> "global"
      [] OTHER        -> s

Regions == { Str("BR"), Str("GLOBAL"), Str("global"), Null }

Amounts == { Num(500), Str("abc") }

\* the parameter bags a client submits (VideoCreationRequest.params is any dict)
ParamBags ==
    [ region            : Regions,
      amount            : Amounts,
      king_name         : { << "Ana" >> },
      persist_file      : BOOLEAN,
      publish_instagram : BOOLEAN ]

(***************************************************************************)
(* utils/video_processor.py: currency                                      *)
(***************************************************************************)
Pad3(n) ==
    IF n < 10 THEN "00" \o ToString(n)
    ELSE IF n < 100 THEN "0" \o ToString(n)
    ELSE ToString(n)

RECURSIVE Grouped(_, _)
\* the integer part of f"{amount:,.2f}" with the separator sep
Grouped(n, sep) ==
    IF n < 1000
    THEN << ToString(n) >>
    ELSE Grouped(n \div 1000, sep) \o << sep, Pad3(n % 1000) >>

\* VideoProcessor._format_currency for a whole amount
format_currency(amount, region) ==
    IF region = "BR"
    THEN Grouped(amount, ".") \o << ",", "00" >>
    ELSE Grouped(amount, ",") \o << ".", "00" >>

(***************************************************************************)
(* utils/renderer.py                                                       *)
(***************************************************************************)
\* What the render engine and FFmpeg do during one render_video call:
\*   capture  "ok": the browser records a video; "novideo": page.video is
\*            None; "raise": the browser phase raises
\*   ffmpeg   "missing": get_ffmpeg_path() is None; "ok": exit status 0;
\*            "fail": CalledProcessError
\*   partial  a failing FFmpeg leaves a partial output file behind
\*   replace  os.rename replaces an existing target (POSIX) or raises (Windows)
RenderEnvs ==
    [ template : {"ok", "raise"},
      capture  : {"ok", "novideo", "raise"},
      ffmpeg   : {"missing", "ok", "fail"},
      partial  : BOOLEAN,
      replace  : BOOLEAN ]

TempHtml(out) == Path("temp_html", out.region, out.id)

RawVideo(out) == Path("raw", out.region, out.id)

\* a mutation: render_video raises when FFmpeg is not found
PostProcessNeedsFFmpeg(f, out, env) ==
    IF env.ffmpeg = "missing"
    THEN [ files |-> f, raised |-> TRUE ]
    ELSE [ files |-> ((f \cup {out}) \ {RawVideo(out)}) \ {TempHtml(out)}, raised |-> FALSE ]

\* render_video lines 84-137, after the browser phase left the files f
PostProcess(f, out, env) ==
    LET raw == RawVideo(out)
        tmp == TempHtml(out)
        \* FFmpeg cannot succeed without its input
        ff  == IF env.ffmpeg = "ok" /\ raw \notin f THEN "fail" ELSE env.ffmpeg
    IN  CASE ff = "missing" ->
                IF raw \in f
                THEN [ files |-> ((f \ {out}) \ {raw}) \cup {out}, raised |-> FALSE ]
                ELSE [ files |-> f \ {out}, raised |-> TRUE ]
          [] ff = "ok" ->
                [ files |-> ((f \cup {out}) \ {raw}) \ {tmp}, raised |-> FALSE ]
          [] OTHER ->
                LET g == IF env.partial THEN f \cup {out} ELSE f
                IN  IF raw \notin g
                    THEN [ files |-> g, raised |-> FALSE ]
                    ELSE IF out \in g /\ ~env.replace
                    THEN [ files |-> g, raised |-> TRUE ]
                    ELSE [ files |-> (g \ {raw}) \cup {out}, raised |-> FALSE ]

\* render_video: the output directory after the call and whether it raised
render_video(fs, out, env) ==
    LET f1 == fs \cup {TempHtml(out)}
    IN  CASE env.capture = "raise"   -> [ files |-> f1, raised |-> TRUE ]
          [] env.capture = "novideo" -> PostProcess(f1, out, env)
          [] OTHER                   -> PostProcess(f1 \cup {RawVideo(out)}, out, env)

(***************************************************************************)
(* utils/video_processor.py: VideoProcessor                                *)
(***************************************************************************)
DefaultEpic == "default_epic.mp3"

\* what requests.get and open do in the fallback of _get_random_music
FetchOutcomes == {"ok", "get_raises", "open_raises"}

\* VideoProcessor._get_random_music: the assets directory after the call
get_random_music(as, fetch) ==
    IF as # {} \/ fetch = "open_raises"
    THEN as
    ELSE { [ name |-> DefaultEpic, content |-> IF fetch = "ok" THEN "audio" ELSE "empty" ] }

\* VideoProcessor._get_random_music: the values it can return
get_random_music_ret(as, fetch) ==
    IF as # {}
    THEN { Some(a.name) : a \in as }
    ELSE IF fetch = "ok" THEN { Some(DefaultEpic) } ELSE { None }

\* a mutation: the except clause of process_video leaves the output file alone
RenderStepNoDelete(fs, out, env, remove_raises) ==
    IF env.template = "raise" THEN fs ELSE render_video(fs, out, env).files

\* process_video line 124: f1 (5.5s) + f4 (4s) + margin, in ms
BaseDuration == 10000

\* process_video lines 125-126: what the frame f2 or f3 adds, in ms
FrameDuration == 3500

\* a mutation: the two optional frames share one extension
DurationOneExtension(params) ==
    BaseDuration
      + (IF Truthy(Get(params, "dethroned_name")) \/ Truthy(Get(params, "victims"))
         THEN FrameDuration ELSE 0)

\* process_video lines 124-126: the duration passed to render_video
Duration(params) ==
    BaseDuration
      + (IF Truthy(Get(params, "dethroned_name")) THEN FrameDuration ELSE 0)
      + (IF Truthy(Get(params, "victims")) THEN FrameDuration ELSE 0)

\* process_video lines 119-145: the output directory after the try block
RenderStep(fs, out, env, remove_raises) ==
    IF env.template = "raise"
    THEN delete_video_file(fs, Some(out), remove_raises)
    ELSE LET r == render_video(fs, out, env)
         IN  IF r.raised
             THEN delete_video_file(r.files, Some(out), remove_raises)
             ELSE r.files

\* process_video lines 138-143: the status of the try block
RenderStatus(fs, out, env) ==
    IF env.template = "raise" \/ render_video(fs, out, env).raised
    THEN "failed"
    ELSE "completed"

\* process_video line 148: float(params.get("amount", 0)) raises
AmountRaises(params) == ~IsNum(params.amount)

\* process_video line 105: params.get("region", "BR").upper() raises
RegionRaises(params) == ~IsStr(params.region)

\* process_video lines 151-160: the VideoResult
VideoResult(params, video_id, region, out, status) ==
    [ video_id        |-> video_id,
      status          |-> status,
      video_path      |-> IF status = "completed" THEN Some(out) ELSE None,
      region          |-> region,
      king_name       |-> params.king_name,
      amount          |-> format_currency(params.amount.num, region),
      persist_file    |-> params.persist_file,
      original_params |-> params ]

(***************************************************************************)
(* utils/video_processor.py: InstagramPublisher                            *)
(***************************************************************************)
\* an HTTP response, or the exception requests.post raised
Response(status, text, uri, id) ==
    [ kind |-> "response", status |-> status, text |-> text, uri |-> uri, id |-> id ]

Raised(text) ==
    [ kind |-> "raise", status |-> 0, text |-> text, uri |-> None, id |-> None ]

InitResponses ==
    { Response(200, << "{uri,id}" >>, Some("upload-session"), Some("creation-1")),
      Response(200, << "{}" >>, None, None),
      Response(400, << "init rejected" >>, None, None),
      Raised(<< "connection reset" >>) }

UploadResponses ==
    { Response(200, << "ok" >>, None, None),
      Response(500, << "upload rejected" >>, None, None),
      Raised(<< "upload timed out" >>) }

PublishResponses ==
    { Response(200, << "{id}" >>, None, Some("media-1")),
      Response(200, << "{}" >>, None, None),
      Response(400, << "publish rejected" >>, None, None),
      Raised(<< "publish timed out" >>) }

\* what the Graph API does during one publish_video call
PublishEnvs == [ init : InitResponses, upload : UploadResponses, publish : PublishResponses ]

\* a credential pair of Settings; os.getenv gives None when the variable is unset
Pair(token, account) == [ token |-> token, account |-> account ]

CredentialsOf(region_name) ==
    { Pair(Some(<< "token-", region_name >>), Some(<< "account-", region_name >>)),
      Pair(None, Some(<< "account-", region_name >>)),
      Pair(Some(<< "token-", region_name >>), None) }

\* str(path) in an f-string
PathText(path) ==
    IF path = None THEN "None" ELSE "./output/" \o Val(path).region \o "_" \o Val(path).id \o ".mp4"

\* str(x) of an f-string for a text that may be None
TextOf(o) == IF o = None THEN << "None" >> ELSE Val(o)

Outcome(success, error, published_id) ==
    [ success |-> success, error |-> error, published_id |-> published_id ]

\* str(e) of the MissingSchema that requests.post(None, ...) raises
InvalidURL == << "Invalid URL 'None'" >>

\* publish_video lines 221-225
Caption(video_data) ==
    << "crown " >> \o video_data.king_name \o << " - " >> \o video_data.amount
      \o (IF video_data.region = "GLOBAL"
          THEN << "#throneclash #crypto #game #winner" >>
          ELSE << "#throneclash #ganhador #leilao #pix" >>)

\* a mutation: a missing GLOBAL pair falls back to the BR pair
SelectedPairFallback(st, region) ==
    IF region = "GLOBAL" /\ TruthyStr(st.GLOBAL.token) /\ TruthyStr(st.GLOBAL.account)
    THEN st.GLOBAL
    ELSE st.BR

\* publish_video lines 177-182
SelectedPair(st, region) == IF region = "GLOBAL" THEN st.GLOBAL ELSE st.BR

\* a mutation: only the access token is required
CredentialsMissingTokenOnly(cred) == ~TruthyStr(cred.token)

\* publish_video line 184: if not access_token or not account_id
CredentialsMissing(cred) == ~TruthyStr(cred.token) \/ ~TruthyStr(cred.account)

\* a mutation: the Init failure is reported without the response body
ErroInitNoBody(res) == Some(<< "Erro Init" >>)

\* publish_video line 203: f"Erro Init: {res.text}"
ErroInit(res) == Some(<< "Erro Init: " >> \o res.text)

\* publish_video line 238: f"Erro Publish: {pub.text}"
ErroPublish(pub) == Some(<< "Erro Publish: " >> \o pub.text)

\* a mutation: every Publish response counts as a success
PublishAcceptedAlways(pub) == TRUE

\* publish_video line 233: if pub.status_code == 200
PublishAccepted(pub) == pub.status = 200

\* a mutation: the except clause reports a fixed text
ExceptOutcomeGeneric(text) == Outcome(FALSE, Some(<< "Erro desconhecido" >>), None)

\* publish_video lines 242-245: the except clause returns str(e) as the error
ExceptOutcome(text) == Outcome(FALSE, Some(text), None)

\* one requests.post of publish_video: the request sent, whether time.sleep(15)
\* had returned before it, and the response (or the exception raised)
Exchange(step, cred, target, caption, slept, response) ==
    [ step     |-> step,
      token    |-> cred.token,
      account  |-> cred.account,
      target   |-> target,
      caption  |-> caption,
      slept    |-> slept,
      response |-> response ]

\* what one publish_video call leaves: the dict returned, self.last_error,
\* the requests sent in order, and whether time.sleep(15) ran
Published(res, requests, slept) ==
    [ result   |-> res,
      error    |-> res.error,
      requests |-> requests,
      slept    |-> slept ]

\* whether the try block of publish_video ended in its except clause
publish_raises(video_data, st, fs, env) ==
    /\ ~CredentialsMissing(SelectedPair(st, video_data.region))
    /\ Exists(fs, video_data.video_path)
    /\ \/ env.init.kind = "raise"
       \/ /\ env.init.status = 200
          /\ \/ env.init.uri = None
             \/ env.upload.kind = "raise"
             \/ env.publish.kind = "raise"

\* InstagramPublisher.publish_video
publish_video(video_data, st, fs, env) ==
    LET path    == video_data.video_path
        region  == video_data.region
        cred    == SelectedPair(st, region)
        init    == Exchange("init", cred, None, << >>, FALSE, env.init)
        upload  == Exchange("upload", cred, env.init.uri, << >>, FALSE, env.upload)
        publish == Exchange("publish", cred, env.init.id, Caption(video_data), TRUE,
                            env.publish)
    IN  IF CredentialsMissing(cred)
        THEN Published(Outcome(FALSE,
                 Some(<< "Credenciais nao encontradas para regiao ", region >>), None),
                 << >>, FALSE)
        ELSE IF ~Exists(fs, path)
        THEN Published(Outcome(FALSE,
                 Some(<< "Arquivo de video nao encontrado: ", PathText(path) >>), None),
                 << >>, FALSE)
        ELSE IF env.init.kind = "raise"
        THEN Published(ExceptOutcome(env.init.text), << init >>, FALSE)
        ELSE IF env.init.status # 200
        THEN Published(Outcome(FALSE, ErroInit(env.init), None), << init >>, FALSE)
        ELSE IF env.init.uri = None
        THEN \* requests.post(None, ...) raises MissingSchema before sending
             Published(ExceptOutcome(InvalidURL), << init >>, FALSE)
        ELSE IF env.upload.kind = "raise"
        THEN Published(ExceptOutcome(env.upload.text), << init, upload >>, FALSE)
        ELSE IF env.publish.kind = "raise"
        THEN Published(ExceptOutcome(env.publish.text), << init, upload, publish >>, TRUE)
        ELSE IF PublishAccepted(env.publish)
        THEN Published(Outcome(TRUE, None, env.publish.id),
                 << init, upload, publish >>, TRUE)
        ELSE Published(Outcome(FALSE, ErroPublish(env.publish), None),
                 << init, upload, publish >>, TRUE)

(***************************************************************************)
(* main.py: the orchestration run process_video_background                 *)
(***************************************************************************)
\* the values datetime.utcnow() can return in this state
Clock == { t \in {now, now + 1} : t <= MaxClock }

\* the clock after time.sleep(15)
AfterSleep(t) == IF t < MaxClock THEN t + 1 ELSE t

\* uuid.uuid4() of process_video for the run of job j
VideoIdOf(j) == "video-of-" \o j

\* an exception object; str(e) is its text
Exc(type, text) == [ type |-> type, text |-> text ]

\* a mutation: the except clause names one exception class
CaughtOnlyValueError(e) == e.type = "ValueError"

\* line 187, except Exception: the classes it catches, among those raised
CaughtByRun(e) == e.type \in {"AttributeError", "TypeError", "ValueError", "MemoryError"}

\* MemoryError(): the interpreter raises it with no arguments, so str(e) is ""
OutOfMemory == Exc("MemoryError", << >>)

\* process_video line 114, params.copy(): whether the allocation raises MemoryError
CopyOutcomes == IF memoryMayFail THEN BOOLEAN ELSE {FALSE}

\* where a run continues when process_video raises e
OnRaise(e) == IF CaughtByRun(e) THEN "except" ELSE "crashed"

NoLocals ==
    [ params |-> None, persist_file |-> FALSE, publish_instagram |-> FALSE,
      video_path |-> None, video_data |-> None, publish_result |-> None,
      error_msg |-> None, exc |-> None, pv |-> None ]

NoHistory == [ raised |-> {}, rendered |-> FALSE, duration |-> None ]

Call(fn, args) == [ fn |-> fn, args |-> args ]

\* a component of the run of job j raised an exception
Raises(j, component, happened) ==
    IF happened
    THEN [ hist EXCEPT ![j].raised = @ \cup {component} ]
    ELSE hist

\* a call of job_queue.update_job_status for job j
Update(j, status, error, result, t) ==
    /\ jobs' = update_job_status(jobs, j, status, error, result, t)
    /\ written' = [ written EXCEPT ![j] =
                      IF update_job_status_ret(jobs, j)
                      THEN Append(@, jobs'[j].status)
                      ELSE @ ]
    /\ now' = t

\* create_video lines 207-213: the job is registered and its run scheduled
Submit(j, bag) ==
    /\ pc[j] = "new"
    /\ bag \in workload[j]
    /\ \E t \in Clock :
         /\ jobs' = add_job(jobs, NewJob(j, "DYNAMIC", bag, t))
         /\ now' = t
    /\ run' = [ run EXCEPT ![j].params = Some(bag) ]
    /\ pc' = [ pc EXCEPT ![j] = "queued" ]
    /\ UNCHANGED << files, assets, logs, settings, last_error, removeMayFail, memoryMayFail, world,
                    workload, written, hist, calls, http >>

\* process_video_background lines 128-135
StartJob(j) ==
    /\ pc[j] = "queued"
    /\ run' = [ run EXCEPT ![j].video_path = None,
                           ![j].persist_file = Val(run[j].params).persist_file,
                           ![j].publish_instagram = Val(run[j].params).publish_instagram ]
    /\ \E t \in Clock : Update(j, PROCESSING, None, None, t)
    /\ pc' = [ pc EXCEPT ![j] = "process_video" ]
    /\ UNCHANGED << files, assets, logs, settings, last_error, removeMayFail, memoryMayFail, world,
                    workload, hist, calls, http >>

\* line 138, process_video lines 104-116: region, output path, music, context
ProcessVideoBegin(j) ==
    /\ pc[j] = "process_video"
    /\ calls' = [ calls EXCEPT ![j] = Append(@, Call("process_video", << >>)) ]
    /\ LET params == Val(run[j].params)
           e      == Exc("AttributeError", << "object has no attribute 'upper'" >>)
       IN  IF RegionRaises(params)
           THEN /\ run' = [ run EXCEPT ![j].exc = Some(e) ]
                /\ pc' = [ pc EXCEPT ![j] = OnRaise(e) ]
                /\ hist' = Raises(j, "pipeline", TRUE)
                /\ UNCHANGED assets
           ELSE \E fetch \in world.fetch :
                \E audio \in get_random_music_ret(assets, fetch) :
                \E copy_raises \in CopyOutcomes :
                  LET region == Upper(params.region.str)
                  IN  /\ assets' = get_random_music(assets, fetch)
                      /\ IF copy_raises
                         THEN /\ run' = [ run EXCEPT ![j].exc = Some(OutOfMemory) ]
                              /\ pc' = [ pc EXCEPT ![j] = OnRaise(OutOfMemory) ]
                              /\ hist' = Raises(j, "pipeline", TRUE)
                         ELSE /\ run' = [ run EXCEPT ![j].pv = Some(
                                    [ video_id    |-> VideoIdOf(j),
                                      region      |-> region,
                                      output_path |-> Path("video", Lower(region), VideoIdOf(j)),
                                      audio_path  |-> audio ]) ]
                              /\ pc' = [ pc EXCEPT ![j] = "render" ]
                              /\ UNCHANGED hist
    /\ UNCHANGED << jobs, files, logs, now, settings, last_error, removeMayFail, memoryMayFail, world,
                    workload, written, http >>

\* lines 138-139, process_video lines 119-160: render, format, return
ProcessVideoRender(j) ==
    /\ pc[j] = "render"
    /\ LET params == Val(run[j].params)
           pv     == Val(run[j].pv)
           out    == pv.output_path
           e      == Exc("ValueError", << "could not convert string to float" >>)
       IN  \E env \in world.render : \E rr \in RemoveOutcomes :
             LET status == RenderStatus(files, out, env)
                 after  == RenderStep(files, out, env, rr)
             IN  /\ files' = after
                 /\ hist' = [ hist EXCEPT
                      ![j].rendered = (status = "completed" /\ out \in after),
                      ![j].duration = IF env.template = "raise"
                                      THEN None ELSE Some(Duration(params)),
                      ![j].raised   = @ \cup (IF status = "failed" \/ AmountRaises(params)
                                              THEN {"pipeline"} ELSE {})
                                        \cup (IF status = "failed" /\ rr /\ out \in after
                                              THEN {"cleanup"} ELSE {}) ]
                 /\ IF AmountRaises(params)
                    THEN /\ run' = [ run EXCEPT ![j].exc = Some(e) ]
                         /\ pc' = [ pc EXCEPT ![j] = OnRaise(e) ]
                    ELSE LET video_data ==
                               VideoResult(params, pv.video_id, pv.region, out, status)
                         IN  /\ run' = [ run EXCEPT
                                           ![j].video_data = Some(video_data),
                                           ![j].video_path = video_data.video_path ]
                             /\ pc' = [ pc EXCEPT ![j] = "check_result" ]
    /\ UNCHANGED << jobs, assets, logs, now, settings, last_error, removeMayFail, memoryMayFail, world,
                    workload, written, calls, http >>

\* a mutation: the status of the VideoResult is not read
ReportedFailureNever(video_data) == FALSE

\* line 142: the pipeline reported a failure
ReportedFailure(video_data) == video_data.status = "failed"

\* lines 142-144: FAILED is recorded and the run returns
RenderFailed(j) ==
    /\ pc[j] = "check_result"
    /\ ReportedFailure(Val(run[j].video_data))
    /\ \E t \in Clock : Update(j, FAILED, Some(<< "Erro na renderizacao" >>), None, t)
    /\ pc' = [ pc EXCEPT ![j] = "done" ]
    /\ UNCHANGED << run, files, assets, logs, settings, last_error, removeMayFail, memoryMayFail, world,
                    workload, hist, calls, http >>

\* a mutation: the publish flag is not consulted
AfterCompletedAlwaysPublish(publish_instagram) == "publish"

\* line 149: if publish_instagram
AfterCompleted(publish_instagram) == IF publish_instagram THEN "publish" ELSE "no_publish"

\* lines 146-149: COMPLETED is recorded with the VideoResult
MarkCompleted(j) ==
    /\ pc[j] = "check_result"
    /\ ~ReportedFailure(Val(run[j].video_data))
    /\ \E t \in Clock : Update(j, COMPLETED, None, run[j].video_data, t)
    /\ pc' = [ pc EXCEPT ![j] = AfterCompleted(run[j].publish_instagram) ]
    /\ UNCHANGED << run, files, assets, logs, settings, last_error, removeMayFail, memoryMayFail, world,
                    workload, hist, calls, http >>

\* a mutation: a failed publish is attempted again
AfterPublishRetry(publish_result) ==
    IF publish_result.success THEN "published" ELSE "publish"

\* line 153: if publish_result.get("success")
AfterPublish(publish_result) ==
    IF publish_result.success THEN "published" ELSE "publish_failed"

\* line 151: instagram_publisher.publish_video(video_data)
PublishVideo(j) ==
    /\ pc[j] = "publish"
    /\ \E env \in world.publish :
         LET r == publish_video(Val(run[j].video_data), settings, files, env)
         IN  /\ last_error' = r.error
             /\ http' = [ http EXCEPT ![j] = @ \o r.requests ]
             /\ now' = IF r.slept THEN AfterSleep(now) ELSE now
             /\ run' = [ run EXCEPT ![j].publish_result = Some(r.result) ]
             /\ pc' = [ pc EXCEPT ![j] = AfterPublish(r.result) ]
             /\ hist' = Raises(j, "publisher",
                               publish_raises(Val(run[j].video_data), settings, files, env))
    /\ calls' = [ calls EXCEPT ![j] = Append(@, Call("publish_video", << >>)) ]
    /\ UNCHANGED << jobs, files, assets, logs, settings, removeMayFail, memoryMayFail, world, workload, written >>

\* publish_video line 174, run by one thread of the pool: self.last_error = None
PublishEnter(j) ==
    /\ pc[j] = "publish"
    /\ last_error' = None
    /\ pc' = [ pc EXCEPT ![j] = "publish_body" ]
    /\ UNCHANGED << jobs, run, files, assets, logs, now, settings, removeMayFail, memoryMayFail,
                    world, workload, written, hist, calls, http >>

\* publish_video lines 177-243 up to the assignment of self.last_error on a
\* failure branch (lines 185, 190, 203, 238, 243), or the return of line 236
PublishBody(j) ==
    /\ pc[j] = "publish_body"
    /\ \E env \in world.publish :
         LET r == publish_video(Val(run[j].video_data), settings, files, env)
         IN  /\ last_error' = IF r.result.success THEN last_error ELSE r.error
             /\ http' = [ http EXCEPT ![j] = @ \o r.requests ]
             /\ now' = IF r.slept THEN AfterSleep(now) ELSE now
             /\ run' = [ run EXCEPT ![j].publish_result =
                           IF r.result.success THEN Some(r.result) ELSE @ ]
             /\ pc' = [ pc EXCEPT ![j] =
                          IF r.result.success THEN AfterPublish(r.result)
                          ELSE "publish_return" ]
             /\ hist' = Raises(j, "publisher",
                               publish_raises(Val(run[j].video_data), settings, files, env))
             /\ calls' = [ calls EXCEPT ![j] =
                             Append(@, Call("publish_video", << r.error >>)) ]
    /\ UNCHANGED << jobs, files, assets, logs, settings, removeMayFail, memoryMayFail, world,
                    workload, written >>

\* the return of a failure branch (lines 187, 192, 205, 240, 245): the dict is
\* built from self.last_error as it is read at that moment
PublishReturn(j) ==
    /\ pc[j] = "publish_return"
    /\ LET res == Outcome(FALSE, last_error, None)
       IN  /\ run' = [ run EXCEPT ![j].publish_result = Some(res) ]
           /\ pc' = [ pc EXCEPT ![j] = AfterPublish(res) ]
    /\ UNCHANGED << jobs, files, assets, logs, now, settings, last_error, removeMayFail,
                    memoryMayFail, world, workload, written, hist, calls, http >>

\* a mutation: the result recorded at PUBLISHED lacks the published id
PublishedResultNoId(video_data, publish_result) ==
    [ instagram_id |-> None ] @@ video_data

\* lines 154-157: {**video_data, "instagram_id": published_id}
PublishedResult(video_data, publish_result) ==
    [ instagram_id |-> publish_result.published_id ] @@ video_data

\* lines 153-157: PUBLISHED is recorded with the augmented result
MarkPublished(j) ==
    /\ pc[j] = "published"
    /\ \E t \in Clock :
         Update(j, PUBLISHED, None,
                Some(PublishedResult(Val(run[j].video_data), Val(run[j].publish_result))), t)
    /\ pc' = [ pc EXCEPT ![j] = "published_cleanup" ]
    /\ UNCHANGED << run, files, assets, logs, settings, last_error, removeMayFail, memoryMayFail, world,
                    workload, hist, calls, http >>

\* a mutation: the file of a delivered video is deleted whatever persist_file says
DeletesAfterSuccessAlways(persist_file) == TRUE

\* lines 159 and 183: if not persist_file
DeletesAfterSuccess(persist_file) == ~persist_file

\* a mutation: the failure path honours persist_file like the success path
DeletesAfterPublishFailureUnlessPersist(persist_file) == ~persist_file

\* line 175: a failed publish deletes the file without reading persist_file
DeletesAfterPublishFailure(persist_file) == TRUE

\* delete_video_file(video_path) is called, or the call is skipped
Cleanup(j, called) ==
    /\ \E rr \in RemoveOutcomes :
         /\ files' = IF called THEN delete_video_file(files, run[j].video_path, rr) ELSE files
         /\ hist' = Raises(j, "cleanup", called /\ rr /\ Exists(files, run[j].video_path))
    /\ calls' = [ calls EXCEPT ![j] =
                    IF called
                    THEN Append(@, Call("delete_video_file", << run[j].video_path >>))
                    ELSE @ ]

\* lines 159-161: the file of a published video
CleanupPublished(j) ==
    /\ pc[j] = "published_cleanup"
    /\ Cleanup(j, DeletesAfterSuccess(run[j].persist_file))
    /\ pc' = [ pc EXCEPT ![j] = "done" ]
    /\ UNCHANGED << jobs, run, assets, logs, now, settings, last_error, removeMayFail, memoryMayFail, world,
                    workload, written, http >>

\* a mutation: a log that cannot be written ends the run
AfterLogWriteAbort(write_raises) == IF write_raises THEN "done" ELSE "failed_cleanup"

\* save_payload_log lines 48-50: the except clause returns "", so the run
\* goes on to line 175 whether or not the log was written
AfterLogWrite(write_raises) == "failed_cleanup"

\* lines 164-172: the failure reason is read and the payload is logged
SavePayloadLog(j) ==
    /\ pc[j] = "publish_failed"
    /\ LET video_data == Val(run[j].video_data)
           error_msg  == Val(run[j].publish_result).error
       IN  /\ run' = [ run EXCEPT ![j].error_msg = error_msg ]
           /\ \E wr \in BOOLEAN :
                /\ logs' = save_payload_log(logs, video_data.original_params,
                                            video_data.video_id, TextOf(error_msg), now, wr)
                /\ hist' = Raises(j, "log_writer", wr)
                /\ calls' = [ calls EXCEPT ![j] = Append(@, Call("save_payload_log",
                                << video_data.original_params, video_data.video_id, error_msg,
                                   save_payload_log_ret(video_data.video_id, now, wr) >>)) ]
                /\ pc' = [ pc EXCEPT ![j] = AfterLogWrite(wr) ]
    /\ UNCHANGED << jobs, files, assets, now, settings, last_error, removeMayFail, memoryMayFail, world,
                    workload, written, http >>

\* line 175: the file of a video that could not be published
CleanupPublishFailed(j) ==
    /\ pc[j] = "failed_cleanup"
    /\ Cleanup(j, DeletesAfterPublishFailure(run[j].persist_file))
    /\ pc' = [ pc EXCEPT ![j] = "mark_publish_failed" ]
    /\ UNCHANGED << jobs, run, assets, logs, now, settings, last_error, removeMayFail, memoryMayFail, world,
                    workload, written, http >>

\* line 178: f"Instagram: {error_msg}"
PublishError(error_msg) == Some(<< "Instagram: " >> \o TextOf(error_msg))

\* line 178: FAILED is recorded with the publish failure reason
MarkPublishFailed(j) ==
    /\ pc[j] = "mark_publish_failed"
    /\ \E t \in Clock : Update(j, FAILED, PublishError(run[j].error_msg), None, t)
    /\ pc' = [ pc EXCEPT ![j] = "done" ]
    /\ UNCHANGED << run, files, assets, logs, settings, last_error, removeMayFail, memoryMayFail, world,
                    workload, hist, calls, http >>

\* lines 179-185: publishing is disabled
SkipPublish(j) ==
    /\ pc[j] = "no_publish"
    /\ Cleanup(j, DeletesAfterSuccess(run[j].persist_file))
    /\ pc' = [ pc EXCEPT ![j] = "done" ]
    /\ UNCHANGED << jobs, run, assets, logs, now, settings, last_error, removeMayFail, memoryMayFail, world,
                    workload, written, http >>

\* lines 187-189: the except clause records FAILED with str(e)
HandleException(j) ==
    /\ pc[j] = "except"
    /\ \E t \in Clock : Update(j, FAILED, Some(Val(run[j].exc).text), None, t)
    /\ pc' = [ pc EXCEPT ![j] = "except_cleanup" ]
    /\ UNCHANGED << run, files, assets, logs, settings, last_error, removeMayFail, memoryMayFail, world,
                    workload, hist, calls, http >>

\* lines 191-192: the except clause deletes the file it knows of
ExceptCleanup(j) ==
    /\ pc[j] = "except_cleanup"
    /\ Cleanup(j, run[j].video_path # None)
    /\ pc' = [ pc EXCEPT ![j] = "done" ]
    /\ UNCHANGED << jobs, run, assets, logs, now, settings, last_error, removeMayFail, memoryMayFail, world,
                    workload, written, http >>

(***************************************************************************)
(* The program                                                             *)
(***************************************************************************)
\* every behaviour of the render engine, the asset host and the Graph API
AnyWorld == [ render |-> RenderEnvs, fetch |-> FetchOutcomes, publish |-> PublishEnvs ]

\* a deployment where FFmpeg is installed and works, the asset host answers,
\* and the Graph API accepts or rejects Init and then accepts the rest; the
\* browser may still fail
CalmWorld ==
    [ render  |-> { env \in RenderEnvs :
                      /\ env.template = "ok" /\ env.capture \in {"ok", "raise"}
                      /\ env.ffmpeg = "ok" /\ ~env.partial /\ env.replace },
      fetch   |-> { "ok" },
      publish |-> { env \in PublishEnvs :
                      /\ env.init.kind = "response"
                      /\ env.init.uri # None \/ env.init.status # 200
                      /\ env.upload.kind = "response" /\ env.upload.status = 200
                      /\ env.publish.kind = "response" /\ env.publish.id # None } ]

\* Settings, read from the environment when the process starts
SettingsValues == [ BR : CredentialsOf("BR"), GLOBAL : CredentialsOf("GLOBAL") ]

\* the state after the module-level construction in main.py, lines 68-71
Start ==
    /\ jobs = << >>
    /\ pc = [ j \in JobIds |-> "new" ]
    /\ run = [ j \in JobIds |-> NoLocals ]
    /\ files = {}
    /\ assets = {}
    /\ logs = {}
    /\ now = 0
    /\ settings \in SettingsValues
    /\ last_error = None
    /\ written = [ j \in JobIds |-> << >> ]
    /\ hist = [ j \in JobIds |-> NoHistory ]
    /\ calls = [ j \in JobIds |-> << >> ]
    /\ http = [ j \in JobIds |-> << >> ]

\* one client submits one request, with any parameter bag
OneJob == [ j \in JobIds |-> IF j = "j1" THEN ParamBags ELSE {} ]

Init ==
    /\ Start
    /\ removeMayFail = FALSE
    /\ memoryMayFail = FALSE
    /\ world = AnyWorld
    /\ workload = OneJob

\* the steps of the orchestration run of job j
RunStep(j) ==
    \/ StartJob(j)
    \/ ProcessVideoBegin(j)
    \/ ProcessVideoRender(j)
    \/ RenderFailed(j)
    \/ MarkCompleted(j)
    \/ PublishVideo(j)
    \/ MarkPublished(j)
    \/ CleanupPublished(j)
    \/ SavePayloadLog(j)
    \/ CleanupPublishFailed(j)
    \/ MarkPublishFailed(j)
    \/ SkipPublish(j)
    \/ HandleException(j)
    \/ ExceptCleanup(j)

Next ==
    \/ \E j \in JobIds : \E bag \in workload[j] : Submit(j, bag)
    \/ \E j \in JobIds : RunStep(j)

Spec == Init /\ [][Next]_vars

\* os.remove may fail (a locked or read-only file)
InitFaultyFS ==
    /\ Start
    /\ removeMayFail = TRUE
    /\ memoryMayFail = FALSE
    /\ world = AnyWorld
    /\ workload = OneJob

SpecFaultyFS == InitFaultyFS /\ [][Next]_vars

\* the process runs short of memory: an allocation may raise MemoryError
InitLowMemory ==
    /\ Start
    /\ removeMayFail = FALSE
    /\ memoryMayFail = TRUE
    /\ world = AnyWorld
    /\ workload = OneJob

SpecLowMemory == InitLowMemory /\ [][Next]_vars

\* both credential pairs are configured
FullSettings ==
    [ BR     |-> Pair(Some(<< "token-", "BR" >>), Some(<< "account-", "BR" >>)),
      GLOBAL |-> Pair(Some(<< "token-", "GLOBAL" >>), Some(<< "account-", "GLOBAL" >>)) ]

\* two clients submit one request each; their runs are concurrent background tasks
TwoJobs ==
    [ j \in JobIds |->
        IF j = "j1"
        THEN [ region : {Str("BR")}, amount : Amounts, king_name : { << "Ana" >> },
               persist_file : {FALSE}, publish_instagram : BOOLEAN ]
        ELSE [ region : {Str("GLOBAL")}, amount : Amounts, king_name : { << "Ana" >> },
               persist_file : {TRUE}, publish_instagram : BOOLEAN ] ]

InitTwoJobs ==
    /\ Start
    /\ settings = FullSettings
    /\ removeMayFail = FALSE
    /\ memoryMayFail = FALSE
    /\ world = CalmWorld
    /\ workload = TwoJobs

SpecTwoJobs == InitTwoJobs /\ [][Next]_vars

\* the steps of a run whose publish_video call interleaves with other threads
ThreadStep(j) ==
    \/ StartJob(j)
    \/ ProcessVideoBegin(j)
    \/ ProcessVideoRender(j)
    \/ RenderFailed(j)
    \/ MarkCompleted(j)
    \/ PublishEnter(j)
    \/ PublishBody(j)
    \/ PublishReturn(j)
    \/ MarkPublished(j)
    \/ CleanupPublished(j)
    \/ SavePayloadLog(j)
    \/ CleanupPublishFailed(j)
    \/ MarkPublishFailed(j)
    \/ SkipPublish(j)
    \/ HandleException(j)
    \/ ExceptCleanup(j)

ThreadNext ==
    \/ \E j \in JobIds : \E bag \in workload[j] : Submit(j, bag)
    \/ \E j \in JobIds : ThreadStep(j)

\* a deployment where rendering works and the Graph API accepts or rejects Init
SharedPublisherWorld ==
    [ render  |-> CalmWorld.render,
      fetch   |-> {"ok"},
      publish |-> { env \in PublishEnvs :
                      /\ env.init \in { Response(200, << "{uri,id}" >>, Some("upload-session"),
                                                 Some("creation-1")),
                                        Response(400, << "init rejected" >>, None, None) }
                      /\ env.upload = Response(200, << "ok" >>, None, None)
                      /\ env.publish = Response(200, << "{id}" >>, None, Some("media-1")) } ]

\* GLOBAL has no account id configured, BR is complete
HalfSettings ==
    [ BR     |-> FullSettings.BR,
      GLOBAL |-> Pair(Some(<< "token-", "GLOBAL" >>), None) ]

InitThreads ==
    /\ Start
    /\ settings = HalfSettings
    /\ removeMayFail = FALSE
    /\ memoryMayFail = FALSE
    /\ world = SharedPublisherWorld
    /\ workload = TwoJobs

\* two runs in the thread pool, publish_video taken statement by statement
SpecThreads == InitThreads /\ [][ThreadNext]_vars

\* a host where get_ffmpeg_path() finds no FFmpeg
NoFFmpegWorld ==
    [ render  |-> { env \in RenderEnvs : env.ffmpeg = "missing" },
      fetch   |-> FetchOutcomes,
      publish |-> PublishEnvs ]

InitNoFFmpeg ==
    /\ Start
    /\ settings = FullSettings
    /\ removeMayFail = FALSE
    /\ memoryMayFail = FALSE
    /\ world = NoFFmpegWorld
    /\ workload = OneJob

SpecNoFFmpeg == InitNoFFmpeg /\ [][Next]_vars

\* one client submits one request, with or without the optional frames
FrameBags ==
    [ region            : { Str("BR") },
      amount            : Amounts,
      king_name         : { << "Ana" >> },
      persist_file      : { FALSE },
      publish_instagram : BOOLEAN,
      dethroned_name    : { Null, Str(""), Str("Rex") },
      victims           : { Null, List(<< >>), List(<< "Bob" >>) } ]
    \cup
    [ region            : { Str("BR") },
      amount            : { Num(500) },
      king_name         : { << "Ana" >> },
      persist_file      : { FALSE },
      publish_instagram : { FALSE } ]

InitFrames ==
    /\ Start
    /\ settings = FullSettings
    /\ removeMayFail = FALSE
    /\ memoryMayFail = FALSE
    /\ world = AnyWorld
    /\ workload = [ j \in JobIds |-> IF j = "j1" THEN FrameBags ELSE {} ]

SpecFrames == InitFrames /\ [][Next]_vars

\* a scheduled background task runs until it returns: the render engine call
\* and every HTTP call eventually return or raise
FairSpec == Spec /\ \A j \in JobIds : WF_vars(RunStep(j))

(***************************************************************************)
(* The JobQueue alone, driven through its methods with any arguments       *)
(***************************************************************************)
QueueBag ==
    [ region |-> Str("BR"), amount |-> Num(500), king_name |-> << "Ana" >>,
      persist_file |-> FALSE, publish_instagram |-> TRUE ]

QueueErrors == { None, Some(<< >>), Some(<< "boom" >>) }

QueueResults == { None, Some(<< >>), Some([ video_id |-> "video-1" ]) }

\* job_queue.add_job(Job(j, "DYNAMIC", params)) with a fresh job id
QueueAdd(j) ==
    /\ j \notin DOMAIN jobs
    /\ \E bag \in workload[j] : \E t \in Clock :
         /\ jobs' = add_job(jobs, NewJob(j, "DYNAMIC", bag, t))
         /\ now' = t
    /\ UNCHANGED << pc, run, files, assets, logs, settings, last_error, removeMayFail, memoryMayFail, world,
                    workload, written, hist, calls, http >>

\* job_queue.update_job_status(j, status, error, result)
QueueUpdate(j, status, error, result) ==
    /\ Len(written[j]) < MaxUpdates
    /\ \E t \in Clock : Update(j, status, error, result, t)
    /\ UNCHANGED << pc, run, files, assets, logs, settings, last_error, removeMayFail, memoryMayFail, world,
                    workload, hist, calls, http >>

QueueNext ==
    \/ \E j \in JobIds : QueueAdd(j)
    \/ \E j \in JobIds : \E status \in JobStatus :
         \E error \in QueueErrors : \E result \in QueueResults :
           QueueUpdate(j, status, error, result)

QueueInit ==
    /\ Start
    /\ settings = [ BR     |-> Pair(Some(<< "token-", "BR" >>), Some(<< "account-", "BR" >>)),
                    GLOBAL |-> Pair(None, Some(<< "account-", "GLOBAL" >>)) ]
    /\ removeMayFail = FALSE
    /\ memoryMayFail = FALSE
    /\ world = AnyWorld
    /\ workload = [ j \in JobIds |-> IF j = "j1" THEN {QueueBag} ELSE {} ]

QueueSpec == QueueInit /\ [][QueueNext]_vars

\* job_queue.update_job_status(j, status, error, result) for a job id that is
\* in the queue or not; calls[j] keeps the latest call and the value it returned
QueueCall(j, status, error, result) ==
    /\ Len(written[j]) < MaxCalls
    /\ \E t \in Clock : Update(j, status, error, result, t)
    /\ calls' = [ calls EXCEPT ![j] =
                    << Call("update_job_status", << update_job_status_ret(jobs, j) >>) >> ]
    /\ UNCHANGED << pc, run, files, assets, logs, settings, last_error, removeMayFail,
                    memoryMayFail, world, workload, hist, http >>

QueueCallNext ==
    \/ \E j \in JobIds : QueueAdd(j)
    \/ \E j \in JobIds : \E status \in JobStatus :
         \E error \in QueueErrors : \E result \in QueueResults :
           QueueCall(j, status, error, result)

\* the queue driven with update calls for registered and for unknown job ids
QueueCallSpec == QueueInit /\ [][QueueCallNext]_vars

(***************************************************************************)
(* A job query served while a run updates the same job.  get_video_status  *)
(* runs on the event loop thread, update_job_status in a thread of the     *)
(* pool, and JobQueue holds no lock, so the two interleave statement by    *)
(* statement.  Here pc[j] is the position of the update call in progress   *)
(* on job j, run[j] its arguments, written[j] the job as each completed    *)
(* call left it, and the last entry of calls[j] the query in progress with *)
(* the fields it has read so far.                                          *)
(***************************************************************************)
UpdateArgs(status, error, result) == [ status |-> status, error |-> error, result |-> result ]

\* the update_job_status calls process_video_background makes next for a job
\* in the given status (main.py lines 135, 143, 146, 154, 178)
RunCalls(status) ==
    CASE status = PENDING ->
           { UpdateArgs(PROCESSING, None, None) }
      [] status = PROCESSING ->
           { UpdateArgs(COMPLETED, None, Some([ video_id |-> "video-1" ])),
             UpdateArgs(FAILED, Some(<< "Erro na renderizacao" >>), None) }
      [] status = COMPLETED ->
           { UpdateArgs(PUBLISHED, None,
                        Some([ video_id |-> "video-1", instagram_id |-> Some("media-1") ])),
             UpdateArgs(FAILED, PublishError(Some(<< "Erro Init: ", "init rejected" >>)), None) }
      [] OTHER -> {}

\* update_job_status lines 103-107: the job is found, job.status = status
UpdateStatus(j, args) ==
    /\ j \in DOMAIN jobs
    /\ pc[j] = "idle"
    /\ args \in RunCalls(jobs[j].status)
    /\ run' = [ run EXCEPT ![j] = args ]
    /\ jobs' = [ jobs EXCEPT ![j].status = args.status ]
    /\ pc' = [ pc EXCEPT ![j] = "started_at" ]
    /\ UNCHANGED << files, assets, logs, now, settings, last_error, removeMayFail, memoryMayFail,
                    world, workload, written, hist, calls, http >>

\* lines 109-110
UpdateStartedAt(j) ==
    /\ pc[j] = "started_at"
    /\ IF run[j].status = PROCESSING /\ ~TruthyObj(jobs[j].started_at)
       THEN \E t \in Clock :
              /\ jobs' = [ jobs EXCEPT ![j].started_at = Some(t) ]
              /\ now' = t
       ELSE UNCHANGED << jobs, now >>
    /\ pc' = [ pc EXCEPT ![j] = "completed_at" ]
    /\ UNCHANGED << run, files, assets, logs, settings, last_error, removeMayFail, memoryMayFail,
                    world, workload, written, hist, calls, http >>

\* lines 112-113
UpdateCompletedAt(j) ==
    /\ pc[j] = "completed_at"
    /\ IF run[j].status \in {COMPLETED, FAILED, PUBLISHED}
       THEN \E t \in Clock :
              /\ jobs' = [ jobs EXCEPT ![j].completed_at = Some(t) ]
              /\ now' = t
       ELSE UNCHANGED << jobs, now >>
    /\ pc' = [ pc EXCEPT ![j] = "error" ]
    /\ UNCHANGED << run, files, assets, logs, settings, last_error, removeMayFail, memoryMayFail,
                    world, workload, written, hist, calls, http >>

\* lines 115-116
UpdateError(j) ==
    /\ pc[j] = "error"
    /\ jobs' = [ jobs EXCEPT ![j].error = IF TruthyStr(run[j].error) THEN run[j].error ELSE @ ]
    /\ pc' = [ pc EXCEPT ![j] = "result" ]
    /\ UNCHANGED << run, files, assets, logs, now, settings, last_error, removeMayFail,
                    memoryMayFail, world, workload, written, hist, calls, http >>

\* lines 118-122: the result is stored and the call returns
UpdateResult(j) ==
    /\ pc[j] = "result"
    /\ jobs' = [ jobs EXCEPT ![j].result = IF TruthyDict(run[j].result) THEN run[j].result ELSE @ ]
    /\ written' = [ written EXCEPT ![j] = Append(@, jobs'[j]) ]
    /\ pc' = [ pc EXCEPT ![j] = "idle" ]
    /\ UNCHANGED << run, files, assets, logs, now, settings, last_error, removeMayFail,
                    memoryMayFail, world, workload, hist, calls, http >>

\* the mutable fields in the order Job.to_dict reads them (lines 50-55)
QueryFields == << "status", "started_at", "completed_at", "error", "result" >>

\* whether the latest query on job j has returned
QueryReturned(j) ==
    IF Len(calls[j]) = 0
    THEN TRUE
    ELSE Len(calls[j][Len(calls[j])].args) = Len(QueryFields)

\* get_video_status lines 235-237: get_job finds the job and to_dict starts
QueryBegin(j) ==
    /\ get_job(jobs, j) # None
    /\ QueryReturned(j)
    /\ Len(calls[j]) < MaxQueries
    /\ calls' = [ calls EXCEPT ![j] = Append(@, Call("to_dict", << >>)) ]
    /\ UNCHANGED << jobs, pc, run, files, assets, logs, now, settings, last_error, removeMayFail,
                    memoryMayFail, world, workload, written, hist, http >>

\* Job.to_dict lines 50-55: the next field of the job is read into the dict
QueryRead(j) ==
    /\ ~QueryReturned(j)
    /\ calls' = [ calls EXCEPT ![j][Len(calls[j])].args =
                    Append(@, jobs[j][QueryFields[Len(@) + 1]]) ]
    /\ UNCHANGED << jobs, pc, run, files, assets, logs, now, settings, last_error, removeMayFail,
                    memoryMayFail, world, workload, written, hist, http >>

QueryNext ==
    \/ \E j \in JobIds : \E status \in JobStatus :
         \E args \in RunCalls(status) : UpdateStatus(j, args)
    \/ \E j \in JobIds :
         \/ UpdateStartedAt(j)
         \/ UpdateCompletedAt(j)
         \/ UpdateError(j)
         \/ UpdateResult(j)
         \/ QueryBegin(j)
         \/ QueryRead(j)

\* one job has been registered and its run has not started
QueryInit ==
    /\ jobs = ("j1" :> NewJob("j1", "DYNAMIC", QueueBag, 0))
    /\ pc = [ j \in JobIds |-> "idle" ]
    /\ run = [ j \in JobIds |-> UpdateArgs(PENDING, None, None) ]
    /\ files = {}
    /\ assets = {}
    /\ logs = {}
    /\ now = 0
    /\ settings = FullSettings
    /\ last_error = None
    /\ removeMayFail = FALSE
    /\ memoryMayFail = FALSE
    /\ world = AnyWorld
    /\ workload = [ j \in JobIds |-> {} ]
    /\ written = [ j \in JobIds |-> IF j \in DOMAIN jobs THEN << jobs[j] >> ELSE << >> ]
    /\ hist = [ j \in JobIds |-> NoHistory ]
    /\ calls = [ j \in JobIds |-> << >> ]
    /\ http = [ j \in JobIds |-> << >> ]

QuerySpec == QueryInit /\ [][QueryNext]_vars

(***************************************************************************)
(* delete_video_file alone, called with any argument on an output          *)
(* directory that holds any of the files                                   *)
(***************************************************************************)
DeletePaths == { Path("video", "br", "video-1"), Path("video", "global", "video-2") }

\* the arguments: None, the path of a file that exists, or of one that does not
DeleteArgs == { None } \cup { Some(p) : p \in DeletePaths }

\* delete_video_file(video_path); the call is recorded with the value returned
\* and the output directory before and after it
DeleteFile(j, video_path) ==
    /\ Len(calls[j]) < MaxDeletes
    /\ \E rr \in RemoveOutcomes :
         /\ files' = delete_video_file(files, video_path, rr)
         /\ calls' = [ calls EXCEPT ![j] =
                         Append(@, Call("delete_video_file",
                                        << video_path,
                                           delete_video_file_ret(files, video_path, rr),
                                           files, files' >>)) ]
    /\ UNCHANGED << jobs, pc, run, assets, logs, now, settings, last_error,
                    removeMayFail, memoryMayFail, world, workload, written, hist, http >>

DeleteNext == \E video_path \in DeleteArgs : DeleteFile("j1", video_path)

DeleteInit ==
    /\ jobs = << >>
    /\ pc = [ j \in JobIds |-> "new" ]
    /\ run = [ j \in JobIds |-> NoLocals ]
    /\ files \in SUBSET DeletePaths
    /\ assets = {}
    /\ logs = {}
    /\ now = 0
    /\ settings = FullSettings
    /\ last_error = None
    /\ removeMayFail = TRUE
    /\ memoryMayFail = FALSE
    /\ world = AnyWorld
    /\ workload = [ j \in JobIds |-> {} ]
    /\ written = [ j \in JobIds |-> << >> ]
    /\ hist = [ j \in JobIds |-> NoHistory ]
    /\ calls = [ j \in JobIds |-> << >> ]
    /\ http = [ j \in JobIds |-> << >> ]

DeleteSpec == DeleteInit /\ [][DeleteNext]_vars

(***************************************************************************)
(* Properties                                                              *)
(***************************************************************************)
Done(j) == pc[j] = "done"

StatusOf(j) == jobs[j].status

\* process_video of the run of job j returned a completed VideoResult
Completed(j) ==
    run[j].video_data # None /\ Val(run[j].video_data).status = "completed"

\* publish_video of the run of job j returned, with a failure or a success
PublishReturned(j, success) ==
    run[j].publish_result # None /\ Val(run[j].publish_result).success = success

\* process_video of the run of job j returned a failed VideoResult
ReturnedFailed(j) ==
    run[j].video_data # None /\ Val(run[j].video_data).status = "failed"

Called(j, fn) == \E i \in 1..Len(calls[j]) : calls[j][i].fn = fn

StatusEdges ==
    { << PENDING, PROCESSING >>, << PROCESSING, COMPLETED >>, << PROCESSING, FAILED >>,
      << COMPLETED, PUBLISHED >>, << COMPLETED, FAILED >> }

\* C1: the statuses a job takes, from PENDING on, follow the edges
\* PENDING -> PROCESSING -> {COMPLETED, FAILED}, COMPLETED -> {PUBLISHED, FAILED};
\* the edges have no cycle and none leaves FAILED or PUBLISHED, so no status is
\* revisited and PROCESSING is never skipped.
C1_StatusPath ==
    \A j \in DOMAIN jobs :
      LET seq == << PENDING >> \o written[j]
      IN  /\ \A i \in 1..(Len(seq) - 1) : << seq[i], seq[i + 1] >> \in StatusEdges
          /\ StatusOf(j) = seq[Len(seq)]

C1_Witness ==
    \E j \in DOMAIN jobs :
      Done(j) /\ written[j] = << PROCESSING, COMPLETED, FAILED >>

\* C2: when a run has ended with the job FAILED, no video file of the job is
\* left at its output path.
C2_NoLeakedVideo ==
    \A j \in DOMAIN jobs :
      (Done(j) /\ StatusOf(j) = FAILED /\ run[j].pv # None)
        => Val(run[j].pv).output_path \notin files

TerminalState(j) ==
    \/ StatusOf(j) \in {FAILED, PUBLISHED}
    \/ StatusOf(j) = COMPLETED /\ ~jobs[j].params.publish_instagram

\* C4: every run that starts eventually returns, and a run that has returned
\* left the job FAILED, PUBLISHED, or COMPLETED with publish_instagram false.
C4_RunsTerminate ==
    /\ \A j \in JobIds : (pc[j] \notin {"new", "queued"}) ~> Done(j)
    /\ [](\A j \in JobIds : Done(j) => TerminalState(j))

C4_Witness ==
    \E j \in JobIds :
      Done(j) /\ StatusOf(j) = COMPLETED /\ ~jobs[j].params.publish_instagram

C7_PublishedResult ==
    \A j \in DOMAIN jobs :
      /\ StatusOf(j) = COMPLETED => jobs[j].result = run[j].video_data
      /\ (Done(j) /\ Completed(j) /\ run[j].publish_instagram /\ PublishReturned(j, TRUE))
           => /\ StatusOf(j) = PUBLISHED
              /\ LET res == Val(jobs[j].result)
                     vd  == Val(run[j].video_data)
                 IN  /\ DOMAIN res = DOMAIN vd \cup {"instagram_id"}
                     /\ \A k \in DOMAIN vd : res[k] = vd[k]
                     /\ res.instagram_id = Val(run[j].publish_result).published_id

C7_Witness ==
    \E j \in DOMAIN jobs :
      /\ Done(j) /\ StatusOf(j) = PUBLISHED
      /\ Val(jobs[j].result).instagram_id = Some("media-1")

C9_CompletedAtAssignedOnce ==
    [][ \A j \in DOMAIN jobs :
          jobs[j].completed_at # None => jobs'[j].completed_at = jobs[j].completed_at ]_vars

\* C10: started_at is set exactly when the job has moved to PROCESSING, and once
\* set no update_job_status call changes it, a repeated PROCESSING update included.
C10_StartedAtAssignedOnce ==
    /\ [](\A j \in DOMAIN jobs :
            jobs[j].started_at # None
              <=> \E i \in 1..Len(written[j]) : written[j][i] = PROCESSING)
    /\ [][ \A j \in DOMAIN jobs :
             jobs[j].started_at # None => jobs'[j].started_at = jobs[j].started_at ]_vars

C10_Witness ==
    \E j \in DOMAIN jobs :
      /\ written[j] = << PROCESSING, COMPLETED, PROCESSING >>
      /\ jobs[j].started_at = Some(0)
      /\ jobs[j].completed_at = Some(1)

\* C11: whenever a job is FAILED its error is a non-empty string, and a run
\* that caught an exception has recorded the text of that exception as the error.
C11_FailedHasError ==
    \A j \in DOMAIN jobs :
      /\ StatusOf(j) = FAILED => TruthyStr(jobs[j].error)
      /\ (StatusOf(j) = FAILED /\ run[j].exc # None)
           => jobs[j].error = Some(Val(run[j].exc).text)

\* C12: process_video returns a VideoResult to the run for every parameter bag;
\* no exception of process_video reaches process_video_background.
C12_ProcessVideoNeverRaises ==
    \A j \in JobIds :
      /\ run[j].exc = None
      /\ "pipeline" \in hist[j].raised => Completed(j) \/ ReturnedFailed(j)

CredentialsAbsent(j) ==
    LET pair == IF Val(run[j].video_data).region = "GLOBAL"
                THEN settings.GLOBAL
                ELSE settings.BR
    IN  pair.token = None \/ pair.account = None

\* C14: a publish_video call made while the token or the account id of the
\* selected region is absent, or while no file exists at the result's
\* video_path, returns success=false with an error and sends no request.
C14_NoRequestWithoutPreconditions ==
    [][ \A j \in JobIds :
          ( /\ pc[j] = "publish"
            /\ pc'[j] # "publish"
            /\ \/ CredentialsAbsent(j)
               \/ ~Exists(files, Val(run[j].video_data).video_path) )
            => /\ ~Val(run'[j].publish_result).success
               /\ Val(run'[j].publish_result).error # None
               /\ Val(run'[j].publish_result).published_id = None
               /\ http'[j] = << >> ]_vars

C14_Witness ==
    \E j \in JobIds :
      /\ PublishReturned(j, FALSE)
      /\ ~CredentialsAbsent(j)
      /\ Val(Val(run[j].publish_result).error)[1] = "Arquivo de video nao encontrado: "
      /\ http[j] = << >>

\* the pair the region submitted with job j selects: the GLOBAL pair for
\* "global" in any letter case, the BR pair otherwise
ExpectedPair(j) ==
    IF jobs[j].params.region \in { Str("GLOBAL"), Str("global"), Str("Global") }
    THEN settings.GLOBAL
    ELSE settings.BR

\* C15: every request of a publish call carries the token and the account id
\* of the pair selected by the region (GLOBAL pair for "global" in any letter
\* case, BR pair otherwise), and when that pair lacks a part no request is sent
\* and the call fails: there is no fallback to the other pair.
C15_RegionCredentials ==
    \A j \in DOMAIN jobs :
      /\ \A i \in 1..Len(http[j]) :
           /\ http[j][i].token = ExpectedPair(j).token
           /\ http[j][i].account = ExpectedPair(j).account
      /\ ( /\ run[j].publish_result # None
           /\ ExpectedPair(j).token = None \/ ExpectedPair(j).account = None )
           => http[j] = << >> /\ PublishReturned(j, FALSE)

C15_Witness ==
    \E j \in DOMAIN jobs :
      /\ jobs[j].params.region = Str("global")
      /\ settings.BR.token = None
      /\ Len(http[j]) = 3
      /\ \A i \in 1..3 : http[j][i].token = Some(<< "token-", "GLOBAL" >>)
      /\ PublishReturned(j, TRUE)

\* the exchange got a success response
Succeeded(x) == x.response.kind = "response" /\ x.response.status = 200

\* C16: within one publish_video call a step is requested only if every
\* earlier step succeeded.
C16_FailureShortCircuits ==
    \A j \in JobIds :
      \A i \in 1..(Len(http[j]) - 1) : Succeeded(http[j][i])

\* C17: when Init answers with a status other than 200, publish_video returns
\* success=false, the error "Erro Init: <body>", published_id null, and Init is
\* the only request sent.
C17_InitRejected ==
    \A j \in JobIds :
      ( /\ Len(http[j]) >= 1
        /\ http[j][1].response.kind = "response"
        /\ http[j][1].response.status # 200 )
        => /\ Len(http[j]) = 1
           /\ http[j][1].step = "init"
           /\ run[j].publish_result
                = Some(Outcome(FALSE,
                               Some(<< "Erro Init: " >> \o http[j][1].response.text),
                               None))

C17_Witness ==
    \E j \in JobIds :
      /\ Len(http[j]) = 1
      /\ http[j][1].response.status = 400
      /\ PublishReturned(j, FALSE)
      /\ Done(j)

\* C18: an exception raised at the Init, Upload or Publish step stays inside
\* publish_video: the step is the last one, the call returns success=false with
\* the exception text as error and published_id null, and the run goes on.
C18_TransportExceptionCaught ==
    \A j \in JobIds :
      /\ \A i \in 1..Len(http[j]) :
           http[j][i].response.kind = "raise"
             => /\ i = Len(http[j])
                /\ run[j].publish_result
                     = Some(Outcome(FALSE, Some(http[j][i].response.text), None))
      /\ "publisher" \in hist[j].raised
           => /\ PublishReturned(j, FALSE)
              /\ Val(run[j].publish_result).published_id = None
              /\ pc[j] # "crashed"

C18_Witness ==
    \E j \in JobIds :
      /\ Len(http[j]) = 2
      /\ http[j][2].response.kind = "raise"
      /\ "publisher" \in hist[j].raised
      /\ Done(j)
      /\ StatusOf(j) = FAILED

\* Init returned 200, Upload was then sent to the session URI of Init, the
\* settle delay elapsed, and Publish for the creation id of Init returned 200
ProtocolCompleted(j) ==
    /\ Len(http[j]) = 3
    /\ http[j][1].step = "init" /\ Succeeded(http[j][1])
    /\ http[j][2].step = "upload"
    /\ http[j][2].target # None
    /\ http[j][2].target = http[j][1].response.uri
    /\ ~http[j][2].slept
    /\ http[j][3].step = "publish"
    /\ http[j][3].slept
    /\ http[j][3].target = http[j][1].response.id
    /\ Succeeded(http[j][3])

\* C19: publish_video returns success=true only after the protocol completed in
\* order, and published_id is then the id of the Publish response; in every
\* other case it returns success=false with published_id null.
C19_SuccessOnlyAfterProtocol ==
    \A j \in JobIds :
      run[j].publish_result # None
        => LET r == Val(run[j].publish_result)
           IN  /\ r.success => ProtocolCompleted(j)
               /\ r.success => r.published_id = http[j][3].response.id
               /\ ~ProtocolCompleted(j) => (~r.success /\ r.published_id = None)

C19_Witness ==
    \E j \in JobIds :
      /\ pc[j] = "published"
      /\ PublishReturned(j, TRUE)
      /\ ProtocolCompleted(j)
      /\ http[j][2].response.status = 500
      /\ Val(run[j].publish_result).published_id = Some("media-1")

CallCount(j, fn) == Cardinality({ i \in 1..Len(calls[j]) : calls[j][i].fn = fn })

StepCount(j, step) == Cardinality({ i \in 1..Len(http[j]) : http[j][i].step = step })

\* C20: a run calls process_video at most once and publish_video at most once,
\* a publish call sends each of Init, Upload and Publish at most once, and once
\* a job is FAILED its run makes no further pipeline or publish call, sends no
\* request and writes no further status.
C20_NothingRetried ==
    [][ \A j \in JobIds :
          /\ (CallCount(j, "process_video") <= 1)'
          /\ (CallCount(j, "publish_video") <= 1)'
          /\ \A step \in {"init", "upload", "publish"} : (StepCount(j, step) <= 1)'
          /\ (j \in DOMAIN jobs /\ StatusOf(j) = FAILED)
               => /\ jobs'[j].status = FAILED
                  /\ written'[j] = written[j]
                  /\ http'[j] = http[j]
                  /\ (CallCount(j, "process_video"))' = CallCount(j, "process_video")
                  /\ (CallCount(j, "publish_video"))' = CallCount(j, "publish_video") ]_vars

C20_Witness ==
    \E j \in DOMAIN jobs :
      /\ Done(j)
      /\ StatusOf(j) = FAILED
      /\ CallCount(j, "process_video") = 1
      /\ CallCount(j, "publish_video") = 1
      /\ StepCount(j, "publish") = 1

\* the statuses the run of job j writes when nothing but its own pipeline and
\* publish outcomes decide them
OwnStatuses(j) ==
    IF run[j].exc # None THEN << PROCESSING, FAILED >>
    ELSE IF ReturnedFailed(j) THEN << PROCESSING, FAILED >>
    ELSE IF ~run[j].publish_instagram THEN << PROCESSING, COMPLETED >>
    ELSE IF PublishReturned(j, TRUE) THEN << PROCESSING, COMPLETED, PUBLISHED >>
    ELSE << PROCESSING, COMPLETED, FAILED >>

\* C21: under every interleaving of the runs of two jobs, a step of the run of
\* job j leaves every other job of the queue unchanged, and the statuses a
\* finished run wrote are those its own outcomes give when it runs alone.
C21_JobsDoNotInterfere ==
    [][ \A j \in JobIds : \A k \in DOMAIN jobs :
          /\ (k # j /\ pc'[j] # pc[j]) => (k \in DOMAIN jobs' /\ jobs'[k] = jobs[k])
          /\ Done(k)' => written'[k] = OwnStatuses(k)' ]_vars

C21_Witness ==
    /\ DOMAIN jobs = JobIds
    /\ Done("j2") /\ StatusOf("j2") = PUBLISHED
    /\ pc["j1"] = "publish" /\ StatusOf("j1") = COMPLETED

\* C22: publish_video is called for a job, and requests are sent for it, only
\* after process_video of that job returned a completed result; never for a
\* failed render and never while process_video is still running.
C22_PublishAfterCompletedRender ==
    \A j \in JobIds :
      /\ (pc[j] = "publish" \/ Called(j, "publish_video") \/ http[j] # << >>)
           => Completed(j)
      /\ (pc[j] \in {"new", "queued", "process_video", "render"} \/ ReturnedFailed(j))
           => (~Called(j, "publish_video") /\ http[j] = << >>)

C22_Witness ==
    \E j \in JobIds :
      /\ Completed(j)
      /\ Called(j, "publish_video")
      /\ Len(http[j]) = 2
      /\ pc[j] = "publish_failed"

\* the optional frame is supplied: the value is a non-empty string or array
Supplied(v) == v \notin { Null, Str(""), List(<< >>) }

\* C23: the duration passed to the render engine is 10000 ms with neither
\* dethroned_name nor victims supplied, 13500 ms with exactly one of them and
\* 17000 ms with both.
C23_Duration ==
    \A j \in DOMAIN jobs :
      hist[j].duration # None
        => LET d == Supplied(Get(jobs[j].params, "dethroned_name"))
               v == Supplied(Get(jobs[j].params, "victims"))
           IN  Val(hist[j].duration) =
                 CASE d /\ v   -> 17000
                   [] d /\ ~v  -> 13500
                   [] ~d /\ v  -> 13500
                   [] OTHER    -> 10000

C23_Witness ==
    \E j \in DOMAIN jobs :
      /\ Supplied(Get(jobs[j].params, "dethroned_name"))
      /\ Supplied(Get(jobs[j].params, "victims"))
      /\ hist[j].duration = Some(17000)
      /\ hist[j].rendered

DeleteCall(i) ==
    LET c == calls["j1"][i]
    IN  [ path |-> c.args[1], ret |-> c.args[2], before |-> c.args[3], after |-> c.args[4] ]

\* C24 as stated: of two successive calls on the same path the second returns
\* False and leaves the output directory unchanged, whatever the first did.
C24_SecondCallReturnsFalse ==
    \A i \in 1..(Len(calls["j1"]) - 1) :
      DeleteCall(i).path = DeleteCall(i + 1).path
        => /\ DeleteCall(i + 1).ret = FALSE
           /\ DeleteCall(i + 1).after = DeleteCall(i + 1).before

\* C24: delete_video_file returns a bool for every argument; it returns True
\* exactly when the file existed and the call removed it, and else leaves the
\* output directory unchanged; a second call on the same path returns False and
\* changes nothing when the first call returned True or found no file (after a
\* first call whose os.remove failed the file is still there).
C24_DeleteReturnsWhetherRemoved ==
    \A i \in 1..Len(calls["j1"]) :
      LET c == DeleteCall(i)
      IN  /\ c.ret \in BOOLEAN
          /\ c.ret <=> (Exists(c.before, c.path) /\ ~Exists(c.after, c.path))
          /\ c.ret => c.after = c.before \ {Val(c.path)}
          /\ ~c.ret => c.after = c.before
          /\ ( /\ i > 1
               /\ DeleteCall(i - 1).path = c.path
               /\ DeleteCall(i - 1).ret \/ ~Exists(DeleteCall(i - 1).before, c.path) )
               => (~c.ret /\ c.after = c.before)

C24_Witness ==
    /\ Len(calls["j1"]) = 3
    /\ \A i \in 1..3 : DeleteCall(i).path = Some(Path("video", "br", "video-1"))
    /\ ~DeleteCall(1).ret /\ DeleteCall(1).after = DeleteCall(1).before
    /\ DeleteCall(2).ret
    /\ ~DeleteCall(3).ret

\* C25: a job id that add_job registered is in the queue in every later state,
\* and get_job returns the job registered under it: the same id, template,
\* parameters and creation time.
C25_JobsAreNeverRemoved ==
    [][ \A k \in DOMAIN jobs :
          /\ k \in DOMAIN jobs'
          /\ get_job(jobs', k) # None
          /\ Val(get_job(jobs', k)).job_id = k
          /\ \A f \in {"job_id", "template", "params", "created_at"} :
               jobs'[k][f] = jobs[k][f] ]_vars

C25_Witness ==
    /\ DOMAIN jobs = JobIds
    /\ \A k \in JobIds : Done(k)
    /\ StatusOf("j1") = FAILED
    /\ StatusOf("j2") = COMPLETED

\* C26: once render_video has finished, by returning or by raising, neither the
\* temporary HTML file nor the raw capture of the render is in the output
\* directory.
C26_NoTemporaryFiles ==
    \A j \in JobIds :
      (run[j].pv # None /\ pc[j] # "render")
        => /\ TempHtml(Val(run[j].pv).output_path) \notin files
           /\ RawVideo(Val(run[j].pv).output_path) \notin files

\* C28: when audio selection returned no audio (no local asset and a failed
\* fetch), no asset file is left in the assets directory.
C28_FailedFetchLeavesNoAsset ==
    \A j \in JobIds :
      (run[j].pv # None /\ Val(run[j].pv).audio_path = None) => assets = {}

\* the last call recorded for job id j
LastCall(j) == calls[j][Len(calls[j])]

\* C29: update_job_status returns True when the job id is in the queue; when
\* it is not, it returns False and the queue is unchanged: no job is created
\* and no field of any job is modified.
C29_UnknownJobIsNoOp ==
    [][ \A j \in JobIds :
          calls'[j] # calls[j]
            => /\ LastCall(j)'.args[1] = (j \in DOMAIN jobs)
               /\ j \notin DOMAIN jobs => jobs' = jobs ]_vars

C29_Witness ==
    /\ "j1" \in DOMAIN jobs /\ calls["j1"] # << >> /\ LastCall("j1").args[1] = TRUE
    /\ "j2" \notin DOMAIN jobs /\ calls["j2"] # << >> /\ LastCall("j2").args[1] = FALSE

\* C30: when process_video returns a completed result, a file exists at the
\* returned video_path.
C30_CompletedHasFile ==
    \A j \in JobIds :
      (pc[j] = "check_result" /\ Completed(j))
        => Exists(files, Val(run[j].video_data).video_path)

\* the error text that the publish_video call of job j assigned to last_error
OwnPublishError(j) ==
    LET i == CHOOSE i \in 1..Len(calls[j]) : calls[j][i].fn = "publish_video"
    IN  calls[j][i].args[1]

\* C31: when two runs call publish_video on the shared publisher at the same
\* time, the error of every failure outcome returned is the error of that
\* call's own failure: it is not null and not the text of the other call.
C31_OwnPublishError ==
    \A j \in JobIds :
      (run[j].publish_result # None /\ ~Val(run[j].publish_result).success)
        => /\ Val(run[j].publish_result).error # None
           /\ Val(run[j].publish_result).error = OwnPublishError(j)

\* C32: after every update_job_status call of an orchestration run the fields
\* of the job agree with its status: started_at is set exactly when the status
\* is not PENDING, completed_at is set exactly when the status is COMPLETED,
\* FAILED or PUBLISHED, result is set when the status is COMPLETED or
\* PUBLISHED, and error is null unless the status is FAILED.
C32_FieldsAgreeWithStatus ==
    \A j \in DOMAIN jobs :
      LET job == jobs[j]
      IN  /\ (job.started_at # None) <=> (job.status # PENDING)
          /\ (job.completed_at # None) <=> (job.status \in {COMPLETED, FAILED, PUBLISHED})
          /\ job.status \in {COMPLETED, PUBLISHED} => job.result # None
          /\ job.status \in {PENDING, PROCESSING, COMPLETED, PUBLISHED} => job.error = None

C32_Witness ==
    \E j \in DOMAIN jobs :
      /\ written[j] = << PROCESSING, COMPLETED, FAILED >>
      /\ jobs[j].started_at # None /\ jobs[j].completed_at # None
      /\ jobs[j].result # None /\ jobs[j].error # None

\* the dict that query i on job j returned
Returned(j, i) ==
    [ k \in 1..Len(QueryFields) |-> calls[j][i].args[k] ]

\* the job as some completed update call (or its construction) left it has
\* the given status and the given values of the fields named
LeftBy(j, dict, fields) ==
    \E n \in 1..Len(written[j]) :
      \A k \in 1..Len(QueryFields) :
        QueryFields[k] \in fields \cup {"status"} => written[j][n][QueryFields[k]] = dict[k]

\* C33: a job query served while update_job_status runs on the same job
\* returns no mixed state: a returned FAILED comes with the error and
\* completed_at of that transition, a returned COMPLETED or PUBLISHED with the
\* result and completed_at of that transition.
C33_QueryIsNotMixed ==
    \A j \in JobIds :
      \A i \in 1..Len(calls[j]) :
        (Len(calls[j][i].args) = Len(QueryFields) /\ pc[j] = "idle")
          => LET dict == Returned(j, i)
             IN  /\ dict[1] = FAILED => LeftBy(j, dict, {"completed_at", "error"})
                 /\ dict[1] \in {COMPLETED, PUBLISHED}
                      => LeftBy(j, dict, {"completed_at", "result"})

\* the log of the failed publish of job j could not be written
LogWriteFailed(j) == "log_writer" \in hist[j].raised

\* C34: when the failure log of a failed publish cannot be written,
\* save_payload_log returns the empty path and raises nothing, the run goes
\* on: the video file is deleted, then the job becomes FAILED with the publish
\* error, and no FAILED status is visible while the file is still there
\* (unless os.remove itself failed).
C34_LogFailureChangesNothing ==
    \A j \in JobIds :
      LogWriteFailed(j)
        => /\ \E i \in 1..Len(calls[j]) :
                /\ calls[j][i].fn = "save_payload_log"
                /\ calls[j][i].args[4] = << >>
           /\ pc[j] \in {"failed_cleanup", "mark_publish_failed", "done"}
           /\ run[j].exc = None
           /\ StatusOf(j) = (IF Done(j) THEN FAILED ELSE COMPLETED)
           /\ StatusOf(j) = FAILED
                => /\ Called(j, "delete_video_file")
                   /\ ~Exists(files, run[j].video_path) \/ "cleanup" \in hist[j].raised
                   /\ jobs[j].error = PublishError(Val(run[j].publish_result).error)

C34_Witness ==
    \E j \in JobIds :
      /\ LogWriteFailed(j) /\ Done(j)
      /\ logs = {}
      /\ StatusOf(j) = FAILED
      /\ run[j].video_path # None /\ ~Exists(files, run[j].video_path)

====
